---- MODULE Spec2Model ----
(***************************************************************************)
(* Model of the UI runtime of twitter-tool-rs (src/ui/mod.rs): the event   *)
(* loop with its terminal and internal event handlers, the display-mode    *)
(* switch, and the background tasks spawned by do_load_page_of_tweets,     *)
(* which share the tweet store and the page-token lock with the loop.      *)
(***************************************************************************)
EXTENDS Integers, Sequences, FiniteSets, TLC

\* ------------------------------------------------------------- bounds
\* Number of load tasks spawned in one run.
MaxTasks == 2
\* Longest page the provider returns.
MaxPage == 2
\* Most ids tweets_reverse_chronological grows to: the provider stops
\* returning tweets that would take it beyond.
MaxOrder == 2

\* Tweet ids and page tokens are strings in the source; two ids tell a
\* repeated id from a new one, one token tells a held token from none.
TweetIds == {"a", "b"}
Tokens == {"c1"}
\* Option<String>::None
None == "None"
OptToken == Tokens \cup {None}

Tasks == 1..MaxTasks
\* page_lock value when no task holds the AsyncMutex guard
NoTask == 0

\* The event loop, as a holder of the store's Mutex guards
EventLoop == MaxTasks + 1

Log == "Log"
Interactive == "Interactive"

\* api::Tweet, reduced to the field this layer reads: its id.
Tweet(id) == [id |-> id]

RECURSIVE SeqsUpTo(_, _)
SeqsUpTo(S, n) ==
    IF n = 0 THEN {<<>>}
    ELSE LET shorter == SeqsUpTo(S, n - 1)
         IN  shorter \cup {Append(s, x) : s \in {q \in shorter : Len(q) = n - 1}, x \in S}

\* What timeline_reverse_chronological can return on success: any page of
\* tweets (the provider is opaque: repeats allowed) and any next token.
Pages == SeqsUpTo({Tweet(i) : i \in TweetIds}, MaxPage)
ProviderOk == [got : {TRUE}, tweets : Pages, page_token : OptToken]
\* a task's (new_tweets, page_token) before the provider has answered it
NoResult == [got |-> FALSE, tweets |-> <<>>, page_token |-> None]

ErrLock == "Cannot get lock"
ErrNoMorePages == "No more pages"
ErrProvider == "provider error"

\* InternalEvent, by variant: the channel's reader prints a LogError's text
\* and reads nothing else of it.
FeedUpdated == "FeedUpdated"
LogError == "LogError"

\* Which fallible terminal / file operation of a handler fails, if any (the
\* first failure is the only one: each is propagated with `?`).
RenderIo == {"ok", "screen", "raw", "pane", "flush"}
LogMessageIo == {"ok", "screen", "raw"}
LogSelectedIo == {"ok", "file", "pager"}

\* terminal::size(): (cols, rows). The terminal starts at InitSize and is
\* resized to any of Sizes.
InitSize == <<4, 4>>
Sizes == {InitSize, <<7, 5>>}

\* Layout, but for its stdout handle
Layout(cols, rows) ==
    [screen_cols |-> cols, screen_rows |-> rows,
     feed_pane_width |-> cols \div 2, tweet_pane_width |-> cols \div 2]

VARIABLES
    mode,                          \* UI.mode
    should_render,                 \* UI.feed_pane.should_render
    tweets_selected_index,         \* UI.tweets_selected_index
    tweets_view_offset,            \* UI.tweets_view_offset
    layout,                        \* UI.layout
    tweet_pane,                    \* TweetPane::render: tweet.text, width, tweet_lines
    bottom_bar,                    \* BottomBar::render: tweets, selected_index, the text printed
    tweets_guard,                  \* holder of the MutexGuard of UI.tweets
    order_guard,                   \* holder of the MutexGuard of UI.tweets_reverse_chronological
    reader,                        \* the event loop's position in log_selected_tweet
    alt,                           \* terminal: alternate screen active
    raw,                           \* terminal: raw mode enabled
    termOps,                       \* terminal: the last two screen switches issued
    lastOut,                       \* terminal: what was written to it last
    status,                        \* the process: running, failed, panicked, exited
    events,                        \* UI.events: the unbounded channel
    tweets,                        \* UI.tweets (HashMap behind a Mutex)
    tweets_reverse_chronological,  \* UI.tweets_reverse_chronological (Vec behind a Mutex)
    tweets_page_token,             \* UI.tweets_page_token (Option behind an AsyncMutex)
    page_lock,                     \* holder of the tweets_page_token guard
    pc,                            \* position of each spawned task
    restart,                       \* each task's `restart` argument
    result,                        \* each task's (new_tweets, page_token)
    error                          \* each task's error, once its async block failed

guardVars == <<tweets_guard, order_guard, reader>>
paneVars == <<tweet_pane, bottom_bar>>
uiVars ==
    <<mode, should_render, tweets_selected_index, tweets_view_offset, layout, paneVars,
      guardVars, alt, raw, termOps, lastOut, status>>
storeVars == <<tweets, tweets_reverse_chronological, tweets_page_token>>
taskVars == <<page_lock, pc, restart, result, error>>
taskVars_but_pc == <<page_lock, restart, result, error>>
vars == <<uiVars, events, storeVars, taskVars>>

\* HashMap::new()
EmptyMap == [x \in {} |-> Tweet("a")]

\* UI::new
InitUI ==
    /\ mode = Log
    /\ should_render = TRUE
    /\ tweets_selected_index = 0
    /\ tweets_view_offset = 0
    /\ layout = Layout(InitSize[1], InitSize[2])
    /\ tweets_guard = NoTask
    /\ order_guard = NoTask
    /\ reader = "idle"
    /\ alt = FALSE
    /\ raw = FALSE
    /\ termOps = <<>>
    /\ lastOut = "none"
    /\ status = "running"
    /\ events = <<>>
    /\ tweets = EmptyMap
    /\ tweets_reverse_chronological = <<>>
    /\ tweets_page_token = None
    /\ page_lock = NoTask
    /\ pc = [t \in Tasks |-> "idle"]
    /\ restart = [t \in Tasks |-> FALSE]
    /\ result = [t \in Tasks |-> NoResult]
    /\ error = [t \in Tasks |-> ""]

\* No tweet is selected in the detail pane, nothing is printed on the bar.
NoTweetPane == [text |-> <<>>, width |-> 0, tweet_lines |-> <<>>]
NotPrinted == [position |-> 0, total |-> 0, unit |-> ""]
NoBottomBar == [tweets |-> <<>>, selected_index |-> 0, printed |-> NotPrinted]

Init ==
    /\ InitUI
    /\ tweet_pane = NoTweetPane
    /\ bottom_bar = NoBottomBar

Running == status = "running"

\* ------------------------------------------------------ the tweet store
\* HashMap::insert: a repeated key overwrites.
insert(m, tw) == [x \in DOMAIN m \cup {tw.id} |-> IF x = tw.id THEN tw ELSE m[x]]

RECURSIVE InsertAll(_, _)

\* Mutant: the loop misses the first tweet of the page.
InsertAll_but_first(m, s) == IF s = <<>> THEN m ELSE InsertAll(m, Tail(s))

InsertAll(m, s) == IF s = <<>> THEN m ELSE InsertAll(insert(m, Head(s)), Tail(s))

\* Mutant: the ids are collected back to front.
Ids_reversed(s) == [i \in 1..Len(s) |-> s[Len(s) + 1 - i].id]

\* new_tweets_reverse_chronological: the ids of a page, in page order
Ids(s) == [i \in 1..Len(s) |-> s[i].id]

Range(s) == {s[i] : i \in 1..Len(s)}

\* ------------------------------------------------------ the load tasks
\* do_load_page_of_tweets: tokio::spawn of a new task; the caller returns
\* at once. Tasks are taken from the pool in order.
do_load_page_of_tweets(r) ==
    \E t \in Tasks :
        /\ pc[t] = "idle"
        /\ \A u \in Tasks : u < t => pc[u] # "idle"
        /\ pc' = [pc EXCEPT ![t] = "start"]
        /\ restart' = [restart EXCEPT ![t] = r]
        /\ UNCHANGED <<page_lock, result, error>>

\* Mutant: the lock is handed out whether or not it is held.
try_lock_always(t) == TRUE

\* AsyncMutex::try_lock succeeds iff nobody holds the guard.
try_lock(t) == page_lock = NoTask

\* Mutant: a continuation goes ahead without a page token.
has_page_token_unchecked(t) == TRUE

\* The match on `restart`: continuing needs a held page token.
has_page_token(t) == restart[t] \/ tweets_page_token # None

\* The argument handed to the provider.
maybe_page_token(t) == IF restart[t] THEN None ELSE tweets_page_token

\* Mutant: the tweets guard is taken with the page-token guard, before the
\* provider is called.
TryLock_locks_store(t) ==
    /\ Running
    /\ pc[t] = "start"
    /\ IF ~try_lock(t)
       THEN /\ error' = [error EXCEPT ![t] = ErrLock]
            /\ pc' = [pc EXCEPT ![t] = "send"]
            /\ restart' = [restart EXCEPT ![t] = FALSE]
            /\ UNCHANGED <<page_lock, tweets_guard>>
       ELSE /\ page_lock' = t
            /\ tweets_guard' = IF tweets_guard = NoTask THEN t ELSE tweets_guard
            /\ UNCHANGED restart
            /\ IF has_page_token(t)
               THEN /\ pc' = [pc EXCEPT ![t] = "call"]
                    /\ UNCHANGED error
               ELSE /\ pc' = [pc EXCEPT ![t] = "unlock"]
                    /\ error' = [error EXCEPT ![t] = ErrNoMorePages]
    /\ UNCHANGED <<mode, should_render, tweets_selected_index, tweets_view_offset, layout, paneVars,
                   order_guard, reader,
                   alt, raw, termOps, lastOut, status, events, storeVars, result>>

\* First poll of the task up to the provider call: try_lock, then the
\* match on `restart` (no await in between; the token is read under the
\* guard).
TryLock(t) ==
    /\ Running
    /\ pc[t] = "start"
    /\ IF ~try_lock(t)
       THEN /\ error' = [error EXCEPT ![t] = ErrLock]
            /\ pc' = [pc EXCEPT ![t] = "send"]
            /\ restart' = [restart EXCEPT ![t] = FALSE]
            /\ UNCHANGED page_lock
       ELSE /\ page_lock' = t
            /\ UNCHANGED restart
            /\ IF has_page_token(t)
               THEN /\ pc' = [pc EXCEPT ![t] = "call"]
                    /\ UNCHANGED error
               ELSE /\ pc' = [pc EXCEPT ![t] = "unlock"]
                    /\ error' = [error EXCEPT ![t] = ErrNoMorePages]
    /\ UNCHANGED <<uiVars, events, storeVars, result>>

\* The provider answers with a page and a next token ...
CallOk(t) ==
    /\ Running
    /\ pc[t] = "call"
    /\ \E r \in ProviderOk :
          /\ Len(tweets_reverse_chronological) + Len(r.tweets) <= MaxOrder
          /\ result' = [result EXCEPT ![t] = r]
    /\ pc' = [pc EXCEPT ![t] = "token"]
    /\ UNCHANGED <<uiVars, events, storeVars, page_lock, restart, error>>

\* Mutant: the token is written before the provider's answer is inspected,
\* so an error clears it.
CallErr_clears_token(t) ==
    /\ Running
    /\ pc[t] = "call"
    /\ error' = [error EXCEPT ![t] = ErrProvider]
    /\ tweets_page_token' = None
    /\ pc' = [pc EXCEPT ![t] = "unlock"]
    /\ UNCHANGED <<uiVars, events, tweets, tweets_reverse_chronological,
                   page_lock, restart, result>>

\* ... or with an error, which `?` returns from the async block.
CallErr(t) ==
    /\ Running
    /\ pc[t] = "call"
    /\ error' = [error EXCEPT ![t] = ErrProvider]
    /\ pc' = [pc EXCEPT ![t] = "unlock"]
    /\ UNCHANGED <<uiVars, events, storeVars, page_lock, restart, result>>

\* *tweets_page_token = page_token (the local is moved out)
WriteToken(t) ==
    /\ Running
    /\ pc[t] = "token"
    /\ tweets_page_token' = result[t].page_token
    /\ result' = [result EXCEPT ![t].page_token = None]
    /\ pc' = [pc EXCEPT ![t] = "tweets"]
    /\ UNCHANGED <<uiVars, events, tweets, tweets_reverse_chronological,
                   page_lock, restart, error>>

\* The block holding the tweets Mutex: every tweet of the page is inserted,
\* its id pushed on the task's new_tweets_reverse_chronological.
InsertTweets(t) ==
    /\ Running
    /\ pc[t] = "tweets"
    /\ tweets' = InsertAll(tweets, result[t].tweets)
    /\ pc' = [pc EXCEPT ![t] = "order"]
    /\ UNCHANGED <<uiVars, events, tweets_reverse_chronological, tweets_page_token,
                   taskVars_but_pc>>

\* The block holding the tweets_reverse_chronological Mutex: Vec::append,
\* which leaves the task's own vector empty.
AppendOrder(t) ==
    /\ Running
    /\ pc[t] = "order"
    /\ tweets_reverse_chronological' = tweets_reverse_chronological \o Ids(result[t].tweets)
    /\ result' = [result EXCEPT ![t] = NoResult]
    /\ pc' = [pc EXCEPT ![t] = "unlock"]
    /\ UNCHANGED <<uiVars, events, tweets, tweets_page_token,
                   page_lock, restart, error>>

\* Mutant: the guard is released on the Ok path only.
DropGuard_ok_only(t) ==
    /\ Running
    /\ pc[t] = "unlock"
    /\ page_lock' = IF error[t] = "" THEN NoTask ELSE page_lock
    /\ restart' = [restart EXCEPT ![t] = FALSE]
    /\ pc' = [pc EXCEPT ![t] = "send"]
    /\ UNCHANGED <<uiVars, events, storeVars, result, error>>

\* The async block returns Ok(()) or Err(error): its guard is dropped, on Ok
\* and on Err alike.
DropGuard(t) ==
    /\ Running
    /\ pc[t] = "unlock"
    /\ page_lock' = NoTask
    /\ restart' = [restart EXCEPT ![t] = FALSE]
    /\ pc' = [pc EXCEPT ![t] = "send"]
    /\ UNCHANGED <<uiVars, events, storeVars, result, error>>

\* Mutant: both arms send FeedUpdated.
task_event_always_ok(t) == FeedUpdated

\* The match on the block's result: Ok sends FeedUpdated, Err sends LogError.
task_event(t) == IF error[t] = "" THEN FeedUpdated ELSE LogError

Send(t) ==
    /\ Running
    /\ pc[t] = "send"
    /\ events' = Append(events, task_event(t))
    /\ error' = [error EXCEPT ![t] = ""]
    /\ pc' = [pc EXCEPT ![t] = "done"]
    /\ UNCHANGED <<uiVars, storeVars, page_lock, restart, result>>

TaskStep(t) ==
    \/ TryLock(t)
    \/ CallOk(t)
    \/ CallErr(t)
    \/ WriteToken(t)
    \/ InsertTweets(t)
    \/ AppendOrder(t)
    \/ DropGuard(t)
    \/ Send(t)

\* ------------------------------------------------- display and terminal
\* The UI fields and the terminal a handler works on; a `?` that returns
\* an Err leaves status "failed".
UI ==
    [mode |-> mode, should_render |-> should_render, alt |-> alt, raw |-> raw,
     termOps |-> termOps, lastOut |-> lastOut, status |-> status]

Ok(u) == u.status = "running"

Push(ops, op) == IF Len(ops) = 2 THEN <<ops[2], op>> ELSE Append(ops, op)

\* execute!(stdout(), EnterAlternateScreen / LeaveAlternateScreen)?, then
\* terminal::enable_raw_mode()?
switch_screen(u, op, io) ==
    IF io = "screen" THEN [u EXCEPT !.status = "failed"]
    ELSE LET u1 == [u EXCEPT !.alt = (op = "enter"), !.termOps = Push(@, op)]
         IN  IF io = "raw" THEN [u1 EXCEPT !.status = "failed"] ELSE [u1 EXCEPT !.raw = TRUE]

\* Mutant: the screen is switched on every call, whatever the mode was.
set_mode_unconditional(u, m, io) ==
    switch_screen([u EXCEPT !.mode = m], IF m = Interactive THEN "enter" ELSE "leave", io)

set_mode(u, m, io) ==
    LET prev_mode == u.mode
        u1 == [u EXCEPT !.mode = m]
    IN  IF prev_mode = Log /\ m = Interactive THEN switch_screen(u1, "enter", io)
        ELSE IF prev_mode = Interactive /\ m = Log THEN switch_screen(u1, "leave", io)
        ELSE u1

\* Mutant: the pane is rendered whatever its flag says.
render_every_pane(u, io) ==
    LET u1 == set_mode(u, Interactive, io)
        u2 == IF io = "pane" THEN [u1 EXCEPT !.status = "failed"]
              ELSE [u1 EXCEPT !.should_render = FALSE]
    IN  IF ~Ok(u1) THEN u1
        ELSE IF ~Ok(u2) THEN u2
        ELSE IF io = "flush" THEN [u2 EXCEPT !.status = "failed"]
        ELSE [u2 EXCEPT !.lastOut = "render"]

\* What reaches the display with the flush is the pane and the cursor
\* ("render"), or the cursor alone when the pane was not rendered.
render(u, io) ==
    LET u1 == set_mode(u, Interactive, io)
        u2 == IF ~u1.should_render THEN u1
              ELSE IF io = "pane" THEN [u1 EXCEPT !.status = "failed"]
              ELSE [u1 EXCEPT !.should_render = FALSE]
    IN  IF ~Ok(u1) THEN u1
        ELSE IF ~Ok(u2) THEN u2
        ELSE IF io = "flush" THEN [u2 EXCEPT !.status = "failed"]
        ELSE [u2 EXCEPT !.lastOut = IF u1.should_render THEN "render" ELSE "cursor"]

\* Mutant: the message is printed in whatever mode the display is in.
log_message_keeps_mode(u, io) == [u EXCEPT !.lastOut = "msg"]

log_message(u, io) ==
    LET u1 == set_mode(u, Log, io)
    IN  IF ~Ok(u1) THEN u1 ELSE [u1 EXCEPT !.lastOut = "msg"]

\* The two index expressions of log_selected_tweet, each of which panics
\* when it misses.
selected_tweet_found ==
    /\ tweets_selected_index < Len(tweets_reverse_chronological)
    /\ tweets_reverse_chronological[tweets_selected_index + 1] \in DOMAIN tweets

log_selected_tweet(u, io) ==
    IF io \in {"file", "pager"} THEN [u EXCEPT !.status = "failed"]
    ELSE [u EXCEPT !.lastOut = "pager"]

\* reset(): leave the alternate screen, disable raw mode.
reset(u) == [u EXCEPT !.alt = FALSE, !.raw = FALSE, !.termOps = Push(@, "leave")]

\* A handler's effect on the UI and the terminal.
CommitUi(u) ==
    /\ mode' = u.mode
    /\ should_render' = u.should_render
    /\ alt' = u.alt
    /\ raw' = u.raw
    /\ termOps' = u.termOps
    /\ lastOut' = u.lastOut
    /\ status' = u.status

Commit(u) ==
    /\ CommitUi(u)
    /\ UNCHANGED <<tweets_selected_index, tweets_view_offset, layout, paneVars>>

\* The process ends (event_loop returns an Err, process::exit, a panic):
\* the channel, the store and the tasks go with it; the terminal stays as
\* it was left.
ProcessEnds ==
    /\ tweets_guard' = NoTask
    /\ order_guard' = NoTask
    /\ reader' = "idle"
    /\ events' = <<>>
    /\ tweets' = EmptyMap
    /\ tweets_reverse_chronological' = <<>>
    /\ tweets_page_token' = None
    /\ page_lock' = NoTask
    /\ pc' = [t \in Tasks |-> "idle"]
    /\ restart' = [t \in Tasks |-> FALSE]
    /\ result' = [t \in Tasks |-> NoResult]
    /\ error' = [t \in Tasks |-> ""]

\* A handler that leaves the channel alone, and one that took its head.
Handled(u) ==
    /\ Commit(u)
    /\ IF Ok(u) THEN UNCHANGED <<guardVars, events, storeVars, taskVars>> ELSE ProcessEnds

Received(u) ==
    /\ Commit(u)
    /\ IF Ok(u) THEN events' = Tail(events) /\ UNCHANGED <<guardVars, storeVars, taskVars>>
       ELSE ProcessEnds

\* ------------------------------------------------------- the event loop
\* Each handler takes the outcomes IO its terminal and file operations
\* may have.
\* handle_internal_event
HandleFeedUpdated(IO) ==
    /\ Running
    /\ events # <<>>
    /\ Head(events) = FeedUpdated
    /\ \E io \in RenderIo \cap IO :
          Received(render([UI EXCEPT !.should_render = TRUE], io))

HandleLogError(IO) ==
    /\ Running
    /\ events # <<>>
    /\ Head(events) = LogError
    /\ \E io \in LogMessageIo \cap IO : Received(log_message(UI, io))

\* handle_terminal_event
KeyEsc(IO) ==
    /\ Running
    /\ \E io \in RenderIo \cap IO :
          Handled(render([UI EXCEPT !.should_render = TRUE], io))

KeyH(IO) ==
    /\ Running
    /\ \E io \in LogMessageIo \cap IO : Handled(log_message(UI, io))

KeyI(IO) ==
    /\ Running
    /\ IF selected_tweet_found
       THEN \E io \in LogSelectedIo \cap IO : Handled(log_selected_tweet(UI, io))
       ELSE Handled([UI EXCEPT !.status = "panicked"])

KeyN ==
    /\ Running
    /\ do_load_page_of_tweets(FALSE)
    /\ UNCHANGED <<uiVars, events, storeVars>>

KeyQ ==
    /\ Running
    /\ Handled([reset(UI) EXCEPT !.status = "exited"])

\* Event::Resize(cols, rows) => self.resize(cols, rows)
resize(cols, rows) == [layout EXCEPT !.screen_cols = cols, !.screen_rows = rows]

Resize ==
    /\ Running
    /\ \E size \in Sizes : layout' = resize(size[1], size[2])
    /\ UNCHANGED <<mode, should_render, tweets_selected_index, tweets_view_offset, paneVars,
                   guardVars, alt, raw, termOps, lastOut, status, events, storeVars, taskVars>>

\* The pub entry points the owner of the UI calls between events.
CallLoadRestart ==
    /\ Running
    /\ do_load_page_of_tweets(TRUE)
    /\ UNCHANGED <<uiVars, events, storeVars>>

CallRender(IO) ==
    /\ Running
    /\ \E io \in RenderIo \cap IO : Handled(render(UI, io))

Step(IO) ==
    \/ HandleFeedUpdated(IO)
    \/ HandleLogError(IO)
    \/ KeyEsc(IO)
    \/ KeyH(IO)
    \/ KeyI(IO)
    \/ KeyN
    \/ KeyQ
    \/ CallLoadRestart
    \/ CallRender(IO)
    \/ \E t \in Tasks : TaskStep(t)

\* The program with a terminal and a file system that do not fail ...
Next == Step({"ok"})
Spec == Init /\ [][Next]_vars

\* ... the same, driven by load requests alone (no other key is pressed) ...
NextFetch ==
    \/ HandleFeedUpdated({"ok"})
    \/ HandleLogError({"ok"})
    \/ KeyN
    \/ CallLoadRestart
    \/ \E t \in Tasks : TaskStep(t)
SpecFetch == Init /\ [][NextFetch]_vars

\* ... and with every fallible operation free to fail.
NextIo == Step(RenderIo \cup LogMessageIo \cup LogSelectedIo)
SpecIo == Init /\ [][NextIo]_vars

\* The render passes and the log messages with every fallible operation
\* free to fail, the loads requested one at a time: every event a pass
\* handles and every mode it starts from, without the interleavings of
\* concurrent loads.
NoLoadInFlight == \A t \in Tasks : pc[t] \in {"idle", "done"}

NextRender ==
    \/ HandleFeedUpdated(RenderIo)
    \/ HandleLogError(LogMessageIo)
    \/ KeyEsc(RenderIo)
    \/ KeyH(LogMessageIo)
    \/ CallRender(RenderIo)
    \/ NoLoadInFlight /\ KeyN
    \/ NoLoadInFlight /\ CallLoadRestart
    \/ \E t \in Tasks : TaskStep(t)
SpecRender == Init /\ [][NextRender]_vars

\* -------------------------------------- the store's guards, one at a time
\* The two blocks of the task and the block of log_selected_tweet again,
\* one Mutex operation a step: lock() waits until the guard is free.
\* let mut tweets = tweets.lock().unwrap()
LockTweets(t) ==
    /\ Running
    /\ pc[t] = "tweets"
    /\ tweets_guard = NoTask
    /\ tweets_guard' = t
    /\ UNCHANGED <<mode, should_render, tweets_selected_index, tweets_view_offset, layout, paneVars,
                   order_guard, reader,
                   alt, raw, termOps, lastOut, status, events, storeVars, taskVars>>

\* Mutant: the guard outlives the block and is never dropped.
InsertLocked_keeps_guard(t) ==
    /\ Running
    /\ pc[t] = "tweets"
    /\ tweets_guard = t
    /\ tweets' = InsertAll(tweets, result[t].tweets)
    /\ pc' = [pc EXCEPT ![t] = "order"]
    /\ UNCHANGED <<uiVars, events, tweets_reverse_chronological, tweets_page_token,
                   taskVars_but_pc>>

\* the for loop, and the end of the block: the guard is dropped
InsertLocked(t) ==
    /\ Running
    /\ pc[t] = "tweets"
    /\ tweets_guard = t
    /\ tweets' = InsertAll(tweets, result[t].tweets)
    /\ tweets_guard' = NoTask
    /\ pc' = [pc EXCEPT ![t] = "order"]
    /\ UNCHANGED <<mode, should_render, tweets_selected_index, tweets_view_offset, layout, paneVars,
                   order_guard, reader,
                   alt, raw, termOps, lastOut, status, events,
                   tweets_reverse_chronological, tweets_page_token, taskVars_but_pc>>

\* let mut tweets_reverse_chronological = tweets_reverse_chronological.lock().unwrap()
LockOrder(t) ==
    /\ Running
    /\ pc[t] = "order"
    /\ order_guard = NoTask
    /\ order_guard' = t
    /\ UNCHANGED <<mode, should_render, tweets_selected_index, tweets_view_offset, layout, paneVars,
                   tweets_guard, reader,
                   alt, raw, termOps, lastOut, status, events, storeVars, taskVars>>

\* append, and the end of the block: the guard is dropped
AppendLocked(t) ==
    /\ Running
    /\ pc[t] = "order"
    /\ order_guard = t
    /\ tweets_reverse_chronological' = tweets_reverse_chronological \o Ids(result[t].tweets)
    /\ result' = [result EXCEPT ![t] = NoResult]
    /\ order_guard' = NoTask
    /\ pc' = [pc EXCEPT ![t] = "unlock"]
    /\ UNCHANGED <<mode, should_render, tweets_selected_index, tweets_view_offset, layout, paneVars,
                   tweets_guard, reader,
                   alt, raw, termOps, lastOut, status, events, tweets, tweets_page_token,
                   page_lock, restart, error>>

GuardedTaskStep(t) ==
    \/ TryLock(t)
    \/ CallOk(t)
    \/ CallErr(t)
    \/ WriteToken(t)
    \/ LockTweets(t)
    \/ InsertLocked(t)
    \/ LockOrder(t)
    \/ AppendLocked(t)
    \/ DropGuard(t)
    \/ Send(t)

\* KeyCode::Char('i') => self.log_selected_tweet()
ReaderStart ==
    /\ Running
    /\ reader = "idle"
    /\ reader' = "lock_tweets"
    /\ UNCHANGED <<mode, should_render, tweets_selected_index, tweets_view_offset, layout, paneVars,
                   tweets_guard,
                   order_guard, alt, raw, termOps, lastOut, status, events, storeVars,
                   taskVars>>

\* let tweets = self.tweets.lock().unwrap()
ReaderLockTweets ==
    /\ Running
    /\ reader = "lock_tweets"
    /\ tweets_guard = NoTask
    /\ tweets_guard' = EventLoop
    /\ reader' = "lock_order"
    /\ UNCHANGED <<mode, should_render, tweets_selected_index, tweets_view_offset, layout, paneVars,
                   order_guard,
                   alt, raw, termOps, lastOut, status, events, storeVars, taskVars>>

\* let tweets_reverse_chronological = self.tweets_reverse_chronological.lock().unwrap()
ReaderLockOrder ==
    /\ Running
    /\ reader = "lock_order"
    /\ order_guard = NoTask
    /\ order_guard' = EventLoop
    /\ reader' = "read"
    /\ UNCHANGED <<mode, should_render, tweets_selected_index, tweets_view_offset, layout, paneVars,
                   tweets_guard,
                   alt, raw, termOps, lastOut, status, events, storeVars, taskVars>>

\* The two index expressions and the rest of log_selected_tweet: both guards
\* are dropped at the end of the block, or by the panic.
ReaderRead ==
    /\ Running
    /\ reader = "read"
    /\ LET u == IF selected_tweet_found THEN log_selected_tweet(UI, "ok")
                ELSE [UI EXCEPT !.status = "panicked"]
       IN  /\ Commit(u)
           /\ IF Ok(u)
              THEN /\ tweets_guard' = NoTask
                   /\ order_guard' = NoTask
                   /\ reader' = "idle"
                   /\ UNCHANGED <<events, storeVars, taskVars>>
              ELSE ProcessEnds

ReaderStep ==
    \/ ReaderStart
    \/ ReaderLockTweets
    \/ ReaderLockOrder
    \/ ReaderRead

\* The loads and the detail key, the event loop inside log_selected_tweet
\* taking no other event.
NextGuards ==
    \/ reader = "idle" /\ KeyN
    \/ reader = "idle" /\ CallLoadRestart
    \/ ReaderStep
    \/ \E t \in Tasks : GuardedTaskStep(t)
SpecGuards == Init /\ [][NextGuards]_vars

\* ------------------------------------------------------- the selection
\* The moves a navigation key asks for.
Deltas == {-1, 1}

\* The rows of the list pane.
visible_height == layout.screen_rows - 3

Max(a, b) == IF a > b THEN a ELSE b
Min(a, b) == IF a < b THEN a ELSE b

\* The selection after a move by delta: the index is clamped to the feed,
\* the view offset snaps to the index when it is above the window and to
\* index - H (never negative) when it is below.
move_selected_index(delta) ==
    LET new_index == Min(Max(0, tweets_selected_index + delta),
                         Len(tweets_reverse_chronological) - 1)
        H == visible_height
    IN  [index |-> new_index,
         offset |-> IF new_index < tweets_view_offset THEN new_index
                    ELSE IF new_index >= tweets_view_offset + H THEN Max(0, new_index - H)
                    ELSE tweets_view_offset]

\* A navigation key, on a feed that is not empty: the move, then a render
\* pass.
MoveSelected ==
    /\ Running
    /\ tweets_reverse_chronological # <<>>
    /\ \E delta \in Deltas :
          LET m == move_selected_index(delta)
          IN  /\ tweets_selected_index' = m.index
              /\ tweets_view_offset' = m.offset
    /\ CommitUi(render([UI EXCEPT !.should_render = TRUE], "ok"))
    /\ UNCHANGED <<layout, paneVars, guardVars, events, storeVars, taskVars>>

\* The program with its navigation keys.
NextSelect == Step({"ok"}) \/ MoveSelected
SpecSelect == Init /\ [][NextSelect]_vars

\* ------------------------------------------------------ the detail pane
\* A body text is the sequence of its source lines (split at "\n"), a
\* source line the sequence of its words' widths; an output line is a
\* sequence of fragments [of, w]: w columns of word number `of` of the
\* source line.
MaxWords == 3
WordWidths == {1, 2, 3}
SourceLines == SeqsUpTo(WordWidths, MaxWords)
Texts == {<<a>> : a \in SourceLines} \cup {<<a, b>> : a, b \in SourceLines}
PaneWidths == {3, 4, 5}

\* tests::test_segmentation: the text, the width and the expected lines
test_str == << <<3, 3, 3, 7, 5, 3, 5>>, <<>>, <<7, 2, 6, 2, 3, 2, 3, 5, 5>> >>
test_width == 20
test_expected ==
    << <<3, 3, 3, 7>>, <<5, 3, 5>>, <<>>, <<7, 2, 6>>, <<2, 3, 2, 3, 5>>, <<5>> >>

\* u16::saturating_sub
saturating_sub(a, b) == IF a > b THEN a - b ELSE 0

\* textwrap: a word wider than the line is broken into pieces that fit.
RECURSIVE break_word(_, _, _)
break_word(k, w, W) ==
    IF w <= W \/ W = 0 THEN <<[of |-> k, w |-> w]>>
    ELSE <<[of |-> k, w |-> W]>> \o break_word(k, w - W, W)

RECURSIVE break_words(_, _, _)
break_words(line, k, W) ==
    IF k > Len(line) THEN <<>>
    ELSE break_word(k, line[k], W) \o break_words(line, k + 1, W)

\* The ways to cut n fragments into lines: the numbers of fragments a line.
RECURSIVE Cuts(_)
Cuts(n) ==
    IF n = 0 THEN {<<>>}
    ELSE UNION {{<<k>> \o c : c \in Cuts(n - k)} : k \in 1..n}

RECURSIVE width_of(_, _, _)
\* The columns of fragments i+1..j on one line, one space between two.
width_of(fr, i, j) ==
    IF j <= i THEN 0
    ELSE fr[j].w + (IF j - 1 > i THEN 1 + width_of(fr, i, j - 1) ELSE 0)

\* textwrap's optimal fit: the cost of the line of fragments i+1..j.
line_cost(fr, i, j, W) ==
    LET line_width == width_of(fr, i, j)
    IN  1000 + (IF line_width > W THEN (line_width - W) * 2500
                ELSE IF j < Len(fr) THEN (W - line_width) * (W - line_width)
                ELSE IF i + 1 = j /\ line_width * 4 < W THEN 25
                ELSE 0)

RECURSIVE cut_cost(_, _, _, _)
cut_cost(fr, cut, i, W) ==
    IF cut = <<>> THEN 0
    ELSE line_cost(fr, i, i + Head(cut), W) + cut_cost(fr, Tail(cut), i + Head(cut), W)

\* Of pairs <<cost, cut>>, the cuts of the least cost.
Cheapest(S) == {p[2] : p \in {p \in S : \A q \in S : p[1] <= q[1]}}

\* Mutant: first fit; every line takes the fragments that fit.
RECURSIVE first_fit(_, _, _)
first_fit(fr, i, W) ==
    IF i >= Len(fr) THEN <<>>
    ELSE LET fits == {k \in 1..(Len(fr) - i) : k = 1 \/ width_of(fr, i, i + k) <= W}
             k == CHOOSE x \in fits : \A y \in fits : y <= x
         IN  <<k>> \o first_fit(fr, i + k, W)

wrap_first_fit(fr, W) == {first_fit(fr, 0, W)}

\* The cuts of the least total cost.
wrap_optimal_fit(fr, W) == Cheapest({<<cut_cost(fr, c, 0, W), c>> : c \in Cuts(Len(fr))})

RECURSIVE lines_of(_, _, _)
lines_of(fr, cut, i) ==
    IF cut = <<>> THEN <<>>
    ELSE <<SubSeq(fr, i + 1, i + Head(cut))>> \o lines_of(fr, Tail(cut), i + Head(cut))

\* The wrapped lines of one source line; a line without words gives one
\* empty line.
wrap_line(line, W) ==
    IF line = <<>> THEN {<< <<>> >>}
    ELSE LET fr == break_words(line, 1, W)
         IN  {lines_of(fr, cut, 0) : cut \in wrap_optimal_fit(fr, W)}

\* textwrap::wrap(text, width): every source line wrapped on its own.
RECURSIVE wrap(_, _)
wrap(text, W) ==
    IF text = <<>> THEN {<<>>}
    ELSE {first \o rest : first \in wrap_line(Head(text), W), rest \in wrap(Tail(text), W)}

\* The texts and pane widths the detail pane is given.
TweetPaneInputs ==
    (Texts \X PaneWidths) \cup {<<test_str, test_width + 1>>}

InitTweetPane ==
    /\ InitUI
    /\ bottom_bar = NoBottomBar
    /\ \E in \in TweetPaneInputs :
          tweet_pane = [text |-> in[1], width |-> in[2], tweet_lines |-> <<>>]

\* TweetPane::render: let tweet_lines = textwrap::wrap(&tweet.text, width.saturating_sub(1))
TweetPaneRender ==
    /\ tweet_pane.tweet_lines = <<>>
    /\ \E lines \in wrap(tweet_pane.text, saturating_sub(tweet_pane.width, 1)) :
          tweet_pane' = [tweet_pane EXCEPT !.tweet_lines = lines]
    /\ UNCHANGED <<mode, should_render, tweets_selected_index, tweets_view_offset, layout,
                   bottom_bar, guardVars, alt, raw, termOps, lastOut, status, events,
                   storeVars, taskVars>>

SpecTweetPane == InitTweetPane /\ [][TweetPaneRender]_vars

\* ------------------------------------------------------- the bottom bar
\* BottomBar::render(context, tweets, selected_index): selected_index is a
\* usize the caller passes, whatever the length of tweets.
MaxIndex == 7

\* format!("{}/{} tweets", selected_index, tweets.len())
status_line(tweets_arg, selected_index) ==
    [position |-> selected_index, total |-> Len(tweets_arg), unit |-> "tweets"]

InitBottomBar ==
    /\ InitUI
    /\ tweet_pane = NoTweetPane
    /\ \E order \in SeqsUpTo(TweetIds, MaxOrder), index \in 0..MaxIndex :
          bottom_bar = [tweets |-> order, selected_index |-> index, printed |-> NotPrinted]

BottomBarRender ==
    /\ bottom_bar.printed = NotPrinted
    /\ bottom_bar' = [bottom_bar EXCEPT
                         !.printed = status_line(bottom_bar.tweets, bottom_bar.selected_index)]
    /\ UNCHANGED <<mode, should_render, tweets_selected_index, tweets_view_offset, layout,
                   tweet_pane, guardVars, alt, raw, termOps, lastOut, status, events,
                   storeVars, taskVars>>

SpecBottomBar == InitBottomBar /\ [][BottomBarRender]_vars

\* The program on a terminal that is resized.
NextResize == Step({"ok"}) \/ Resize
SpecResize == Init /\ [][NextResize]_vars


\* ---------------------------------------------------------------- claims
\* The positions at which a task holds the tweets_page_token guard.
HolderPcs == {"call", "token", "tweets", "order", "unlock"}

\* C1: in every reachable state at most one task is between taking and
\* dropping the page-token guard, and every task that is at the provider call
\* or at a write of the token, the map or the order is the holder of the
\* guard; so at most one fetch is in flight.
C1_OneFetchInFlight ==
    /\ Cardinality({t \in Tasks : pc[t] \in HolderPcs}) <= 1
    /\ \A t \in Tasks : pc[t] \in HolderPcs => page_lock = t

\* A load was issued and refused while another load is at the provider.
C1_Witness ==
    \E t, u \in Tasks :
        /\ pc[t] = "call" /\ page_lock = t
        /\ pc[u] = "send" /\ error[u] = ErrLock

\* C2: a task that makes its first step while the guard is held fails at
\* once with "Cannot get lock" and writes nothing; its only further step sends
\* one LogError and again writes nothing (it never reaches the provider call).
C2_ContendedLoadFailsFast ==
    [][\A t \in Tasks :
        /\ (pc[t] = "start" /\ pc'[t] # "start" /\ page_lock # NoTask /\ Running')
              => /\ pc'[t] = "send"
                 /\ error'[t] = ErrLock
                 /\ UNCHANGED <<storeVars, page_lock, events>>
        /\ (error[t] = ErrLock /\ pc'[t] # pc[t] /\ Running')
              => /\ pc[t] = "send"
                 /\ pc'[t] = "done"
                 /\ events' = Append(events, LogError)
                 /\ UNCHANGED <<storeVars, page_lock>>
      ]_vars

\* A load was refused while the load in flight is in the middle of its merge.
C2_Witness ==
    \E t, u \in Tasks :
        /\ pc[t] = "send" /\ error[t] = ErrLock
        /\ page_lock = u /\ pc[u] \in {"token", "tweets", "order"}

\* C3: a task with restart = false that makes its first step while no page
\* token is held fails ("No more pages", or "Cannot get lock" when another
\* load is in flight) without writing anything; a task that failed with "No
\* more pages" only drops its guard and sends one LogError; and an absent
\* token becomes present only by the write of a restart = true load.
C3_NoCursorNoFetch ==
    [][/\ \A t \in Tasks :
            /\ (pc[t] = "start" /\ ~restart[t] /\ tweets_page_token = None
                    /\ pc'[t] # "start" /\ Running')
                  => /\ \/ pc'[t] = "unlock" /\ error'[t] = ErrNoMorePages
                        \/ pc'[t] = "send" /\ error'[t] = ErrLock
                     /\ UNCHANGED <<storeVars, events>>
            /\ (error[t] = ErrNoMorePages /\ pc'[t] # pc[t] /\ Running')
                  => /\ UNCHANGED storeVars
                     /\ \/ pc[t] = "unlock" /\ pc'[t] = "send" /\ UNCHANGED events
                        \/ /\ pc[t] = "send" /\ pc'[t] = "done"
                           /\ events' = Append(events, LogError)
       /\ (tweets_page_token = None /\ tweets_page_token' # None /\ Running')
             => \E t \in Tasks : pc[t] = "token" /\ restart[t] /\ page_lock = t
      ]_vars

\* A continuation fails for want of a token after a page has been merged:
\* the last successful fetch returned no next token.
C3_Witness ==
    \E t \in Tasks :
        /\ pc[t] = "send" /\ error[t] = ErrNoMorePages
        /\ tweets_reverse_chronological # <<>>

\* C4: the guard is never left with a task that is not between taking and
\* dropping it, and a task that makes its first step while no other task is
\* there takes the guard (it does not fail with "Cannot get lock").
C4_LockReleasedOnEveryExit ==
    [][Running' =>
        /\ \A t \in Tasks : page_lock' = t => pc'[t] \in HolderPcs
        /\ \A t \in Tasks :
              (/\ pc[t] = "start" /\ pc'[t] # "start"
               /\ \A u \in Tasks \ {t} : pc[u] \notin HolderPcs)
                 => page_lock' = t /\ error'[t] # ErrLock
      ]_vars

\* Task 1 took the guard, left by an error path, and task 2 holds it now.
C4_Witness ==
    /\ pc[1] = "send" /\ error[1] \in {ErrNoMorePages, ErrProvider}
    /\ page_lock = 2 /\ pc[2] = "call"

\* C5: a task ends only by its send step, which appends exactly one event and
\* writes nothing: FeedUpdated when the async block returned Ok, LogError
\* otherwise; nothing else appends to the channel. The block returns Ok only
\* from the append to the order, made after the provider answered, the token
\* was replaced by the page's and the page's tweets were inserted; a step
\* that leaves a task with an error writes nothing (a provider error does not
\* touch the token).
C5_OneEventPerLoad ==
    [][Running' =>
        /\ \A t \in Tasks :
            /\ (pc'[t] = "done" /\ pc[t] # "done")
                  => /\ pc[t] = "send"
                     /\ events' = Append(events, IF error[t] = "" THEN FeedUpdated ELSE LogError)
                     /\ UNCHANGED storeVars
            /\ (pc[t] = "send" /\ pc'[t] # "send") => pc'[t] = "done"
            /\ (pc'[t] = "send" /\ pc[t] # "send")
                  => \/ pc[t] = "unlock" /\ error'[t] = error[t]
                     \/ pc[t] = "start" /\ error'[t] = ErrLock
            /\ (pc'[t] = "unlock" /\ pc[t] # "unlock" /\ error'[t] = "")
                  => /\ pc[t] = "order"
                     /\ result[t].got
                     /\ tweets_reverse_chronological'
                           = tweets_reverse_chronological \o Ids(result[t].tweets)
                     /\ \A i \in 1..Len(result[t].tweets) :
                           result[t].tweets[i].id \in DOMAIN tweets
            /\ (pc'[t] = "order" /\ pc[t] # "order")
                  => pc[t] = "tweets" /\ tweets' = InsertAll(tweets, result[t].tweets)
            /\ (pc'[t] = "tweets" /\ pc[t] # "tweets")
                  => pc[t] = "token" /\ tweets_page_token' = result[t].page_token
            /\ (pc'[t] = "token" /\ pc[t] # "token")
                  => pc[t] = "call" /\ result'[t].got
            /\ (pc'[t] # pc[t] /\ error'[t] # "")
                  => UNCHANGED storeVars /\ ~result'[t].got
        /\ (Len(events') > Len(events))
              => \E t \in Tasks : pc[t] = "send" /\ pc'[t] = "done"
      ]_vars

\* Every task has ended, one with FeedUpdated and one with LogError, and both
\* events are still in the channel.
C5_Witness ==
    /\ \A t \in Tasks : pc[t] = "done"
    /\ Len(events) = MaxTasks
    /\ FeedUpdated \in Range(events)
    /\ LogError \in Range(events)

\* C6: in every reachable state, the states between a task's insert into the
\* map and its append to the order included, every id in the order is a key of
\* the map, and the entry under it is the tweet with that id.
C6_NoDanglingId ==
    /\ Range(tweets_reverse_chronological) \subseteq DOMAIN tweets
    /\ \A id \in DOMAIN tweets : tweets[id].id = id

\* Mid-merge: a page's tweets are in the map and its ids not yet in the order.
C6_Witness ==
    \E t \in Tasks :
        /\ pc[t] = "order"
        /\ result[t].tweets # <<>>
        /\ tweets_reverse_chronological = <<>>
        /\ DOMAIN tweets # {}

\* C7: whenever no merge is between its insert and its append,
\* the order is as long as the map has entries.
C7_OrderLenEqualsItems ==
    (\A t \in Tasks : pc[t] # "order")
        => Len(tweets_reverse_chronological) = Cardinality(DOMAIN tweets)

\* C8: while the process runs, every step leaves the old order a prefix of
\* the new one; the order changes only by the append of the guard's holder,
\* which adds the page's ids in the sequence the provider returned them; and
\* the token changes only by the holder's write, to the token the page
\* returned.
C8_OrderAppendOnly ==
    [][Running' =>
        /\ Len(tweets_reverse_chronological) <= Len(tweets_reverse_chronological')
        /\ SubSeq(tweets_reverse_chronological', 1, Len(tweets_reverse_chronological))
              = tweets_reverse_chronological
        /\ \A t \in Tasks :
            /\ (pc[t] = "order" /\ pc'[t] = "unlock")
                  => /\ Len(tweets_reverse_chronological')
                           = Len(tweets_reverse_chronological) + Len(result[t].tweets)
                     /\ \A i \in 1..Len(result[t].tweets) :
                           tweets_reverse_chronological'[Len(tweets_reverse_chronological) + i]
                              = result[t].tweets[i].id
            /\ (pc[t] = "token" /\ pc'[t] = "tweets")
                  => tweets_page_token' = result[t].page_token
        /\ (tweets_reverse_chronological' # tweets_reverse_chronological)
              => \E t \in Tasks : pc[t] = "order" /\ pc'[t] = "unlock" /\ page_lock = t
        /\ (tweets_page_token' # tweets_page_token)
              => \E t \in Tasks : pc[t] = "token" /\ pc'[t] = "tweets" /\ page_lock = t
      ]_vars

\* Two loads have succeeded, the order holds two different ids and a next
\* token is held.
C8_Witness ==
    /\ \A t \in Tasks : pc[t] = "done"
    /\ events = <<FeedUpdated, FeedUpdated>>
    /\ tweets_reverse_chronological = <<"a", "b">>
    /\ tweets_page_token # None

\* C9: whenever the last thing written to the terminal is a log
\* message or the pager, the mode is Log and the alternate screen is left.
C9_LogModeBeforeOutput ==
    (Running /\ lastOut \in {"msg", "pager"}) => (mode = Log /\ ~alt)

\* C10: while the event loop runs, the alternate screen is active exactly in
\* Interactive mode; before the first screen switch the mode is Log; the
\* first switch is an enter; and of two consecutive switches one is an enter
\* and the other a leave.
C10_AltScreenFollowsMode ==
    Running =>
        /\ alt <=> (mode = Interactive)
        /\ termOps = <<>> => mode = Log
        /\ Len(termOps) = 1 => termOps = <<"enter">>
        /\ Len(termOps) = 2 => termOps[1] # termOps[2]
        /\ termOps # <<>> => (termOps[Len(termOps)] = "enter" <=> mode = Interactive)

\* The screen has been entered, left and entered again.
C10_Witness ==
    /\ Running
    /\ termOps = <<"leave", "enter">>
    /\ mode = Interactive
    /\ lastOut = "render"

\* C11: a step that changes the screen size leaves the list pane's dirty
\* flag set and the two pane widths recomputed from the new screen width.
C11_ResizeMarksDirtyAndRecomputes ==
    [][(Running' /\ layout' # layout)
          => /\ should_render'
             /\ layout'.feed_pane_width = layout'.screen_cols \div 2
             /\ layout'.tweet_pane_width = layout'.screen_cols \div 2
      ]_vars

\* C12: while the loop runs, the step that takes a LogError from the channel
\* leaves the mode Log, the alternate screen left, a message the last thing
\* written and the pane's dirty flag as it was (no pane is rendered); the mode
\* leaves Log only by a step that ends a render pass in Interactive mode; and
\* the step that takes a FeedUpdated from the channel is such a step.
C12_LogErrorLeavesLogMode ==
    [][Running' =>
        /\ (events # <<>> /\ Head(events) = LogError /\ events' = Tail(events))
              => /\ mode' = Log /\ ~alt'
                 /\ lastOut' = "msg"
                 /\ should_render' = should_render
        /\ (mode = Log /\ mode' # Log)
              => mode' = Interactive /\ alt' /\ lastOut' \in {"render", "cursor"}
        /\ (events # <<>> /\ Head(events) = FeedUpdated /\ events' = Tail(events))
              => mode' = Interactive /\ alt' /\ lastOut' = "render"
      ]_vars

\* A load failed while the display was interactive; its LogError has been
\* taken from the channel and the display is left in Log mode.
C12_Witness ==
    /\ Running
    /\ \E t \in Tasks : pc[t] = "done"
    /\ events = <<>>
    /\ tweets_reverse_chronological = <<>> /\ tweets_page_token = None
    /\ termOps = <<"enter", "leave">>
    /\ mode = Log /\ lastOut = "msg"

\* The contexts that take the store's guards, the guard a context waits
\* for, and whether a holder gets to the end of its block.
Contexts == Tasks \cup {EventLoop}

Blocker(c) ==
    IF c = EventLoop
    THEN IF reader = "lock_tweets" THEN tweets_guard
         ELSE IF reader = "lock_order" THEN order_guard
         ELSE NoTask
    ELSE IF pc[c] = "tweets" /\ tweets_guard # c THEN tweets_guard
         ELSE IF pc[c] = "order" /\ order_guard # c THEN order_guard
         ELSE NoTask

InBlock(c) ==
    IF c = EventLoop THEN reader \in {"lock_order", "read"}
    ELSE pc[c] \in {"tweets", "order"}

RECURSIVE CanRelease(_, _)
CanRelease(h, n) ==
    IF Blocker(h) = NoTask THEN InBlock(h)
    ELSE n > 0 /\ CanRelease(Blocker(h), n - 1)

\* C13: while a task is suspended in the provider call, no task holds a
\* guard of the store, so the event loop's next step is enabled wherever it
\* is inside log_selected_tweet, and between events every terminal-event
\* handler (Esc, h, i, n while a task can be spawned, q, resize) is enabled.
C13_HungCallStallsNoHandler ==
    \A t \in Tasks :
        (Running /\ pc[t] = "call")
            => /\ page_lock = t
               /\ tweets_guard \notin Tasks
               /\ order_guard \notin Tasks
               /\ ENABLED ReaderStep
               /\ reader = "idle"
                     => /\ ENABLED KeyEsc({"ok"})
                        /\ ENABLED KeyH({"ok"})
                        /\ ENABLED KeyI({"ok"})
                        /\ ENABLED KeyQ
                        /\ ENABLED Resize
                        /\ (\E u \in Tasks : pc[u] = "idle") => ENABLED KeyN

\* The detail key went through both guards while a load is at the provider.
C13_Witness ==
    \E t \in Tasks :
        /\ pc[t] = "call" /\ page_lock = t
        /\ reader = "read"
        /\ tweets_guard = EventLoop /\ order_guard = EventLoop

\* C16: what the reader sees under both guards is no half-merged page:
\* every tweet in the map has its id in the order.
C16_MergeAtomicToReaders ==
    reader = "read" => DOMAIN tweets \subseteq Range(tweets_reverse_chronological)

\* C17: whenever a context waits for a guard of the store, the holder is
\* another context that gets to the end of its block without a guard the
\* waiter holds (the chain of holders ends at one that waits for nothing),
\* and a step of some context is enabled; nobody waits for the page-token
\* guard, which is taken by try_lock alone.
C17_NoDeadlockOnGuards ==
    Running =>
        \A c \in Contexts :
            Blocker(c) # NoTask
                => /\ Blocker(c) # c
                   /\ CanRelease(Blocker(c), MaxTasks + 1)
                   /\ Blocker(Blocker(c)) # c
                   /\ ENABLED (ReaderStep \/ \E t \in Tasks : GuardedTaskStep(t))

\* The event loop holds the tweets guard and waits for the order guard,
\* which a task holds.
C17_Witness ==
    /\ reader = "lock_order"
    /\ tweets_guard = EventLoop
    /\ order_guard \in Tasks

\* C14: while the feed is not empty the selected index is an index of the
\* order and lies inside the window of visible_height rows that starts at
\* the view offset.
C14_SelectionInsideWindow ==
    (Running /\ tweets_reverse_chronological # <<>>)
        => /\ tweets_selected_index \in 0..(Len(tweets_reverse_chronological) - 1)
           /\ tweets_view_offset <= tweets_selected_index
           /\ tweets_selected_index < tweets_view_offset + visible_height

\* The detail pane has wrapped its text; the wrap width; the widths of the
\* words of the output lines.
Wrapped == tweet_pane.tweet_lines # <<>>
WrapWidth == saturating_sub(tweet_pane.width, 1)
WordsOf(lines) == [i \in 1..Len(lines) |-> [j \in 1..Len(lines[i]) |-> lines[i][j].w]]

EveryWordFits ==
    \A i \in 1..Len(tweet_pane.text) :
        \A j \in 1..Len(tweet_pane.text[i]) : tweet_pane.text[i][j] <= WrapWidth

NoLineExceeds ==
    \A i \in 1..Len(tweet_pane.tweet_lines) :
        width_of(tweet_pane.tweet_lines[i], 0, Len(tweet_pane.tweet_lines[i])) <= WrapWidth

RECURSIVE Concat(_)
Concat(lines) == IF lines = <<>> THEN <<>> ELSE Head(lines) \o Concat(Tail(lines))

\* The output lines are the source lines, one after the other: a source
\* line without words is one empty line, a source line with words is one or
\* more lines that are not empty and hold its words, whole and in order.
RECURSIVE WordsKept(_, _)
WordsKept(text, lines) ==
    IF text = <<>> THEN lines = <<>>
    ELSE IF Head(text) = <<>>
         THEN lines # <<>> /\ Head(lines) = <<>> /\ WordsKept(Tail(text), Tail(lines))
         ELSE \E n \in 1..Len(lines) :
                 /\ \A i \in 1..n : lines[i] # <<>>
                 /\ Concat(SubSeq(lines, 1, n))
                       = [k \in 1..Len(Head(text)) |-> [of |-> k, w |-> Head(text)[k]]]
                 /\ WordsKept(Tail(text), SubSeq(lines, n + 1, Len(lines)))

\* Every line that is continued by the next holds as many words as fit: the
\* first word of the next line does not fit behind it.
EveryLineFull ==
    \A i \in 1..(Len(tweet_pane.tweet_lines) - 1) :
        LET line == tweet_pane.tweet_lines[i]
            next == tweet_pane.tweet_lines[i + 1]
        IN  (line # <<>> /\ next # <<>> /\ next[1].of # 1)
                => width_of(line, 0, Len(line)) + 1 + next[1].w > WrapWidth

TestLines ==
    (tweet_pane.text = test_str /\ WrapWidth = test_width)
        => WordsOf(tweet_pane.tweet_lines) = test_expected

RenderPass(io) == HandleFeedUpdated({io}) \/ KeyEsc({io}) \/ CallRender({io})

\* C18: every render pass forces the mode to Interactive; a pass that
\* succeeds leaves the mode Interactive and the pane's flag clear; a pass in
\* which the pane's render fails leaves the flag set; a pass that finds the
\* flag clear does not render the pane (only the cursor reaches the display,
\* and a pane that would fail is not a failure of the pass).
C18_RenderPass ==
    [][\A io \in RenderIo :
          RenderPass(io) =>
              /\ mode' = Interactive
              /\ status' = "running" => ~should_render'
              /\ (io = "pane" /\ status' = "failed") => should_render'
              /\ (CallRender({io}) /\ ~should_render) =>
                     /\ io = "pane" => status' = "running"
                     /\ status' = "running" => lastOut' = "cursor"]_vars

\* A pass that found the flag clear has put the cursor alone on the
\* display, and a later pass has failed in the pane and kept the flag.
C18_Witness ==
    /\ status = "failed"
    /\ mode = Interactive
    /\ should_render
    /\ lastOut = "cursor"

\* C19: for every selected_index and feed size the status line shows the
\* 1-based position and the total: the number before the slash is
\* selected_index + 1, the number after it the size of the feed, and the
\* text ends in " items".
C19_StatusLineOneBased ==
    bottom_bar.printed # NotPrinted =>
        /\ bottom_bar.printed.position = bottom_bar.selected_index + 1
        /\ bottom_bar.printed.total = Len(bottom_bar.tweets)
        /\ bottom_bar.printed.unit = "items"

\* C20: whenever the detail key 'i' is handled, also before any page has
\* been loaded, selected_index is an index of the order and the id found
\* there is a key of the map, so the lookup does not go out of bounds and
\* the process is not aborted.
C20_DetailLookupInBounds ==
    [][KeyI(LogSelectedIo) => (selected_tweet_found /\ status' # "panicked")]_vars

====
